---- MODULE Spec2Model ----
(***************************************************************************)
(* Model of src/bot/questbot.py: the per-user conversation state kept in   *)
(* context.user_data ('state', 'quest') and the four handlers registered   *)
(* on the Application (start, edit_quest, handle_location, handle_quest).  *)
(* Updates are processed one at a time, each handler coroutine running to  *)
(* completion or to the first exception it raises.                         *)
(***************************************************************************)
EXTENDS Integers, Sequences, FiniteSets, TLC

\* ---------------------------------------------------------------- bounds
NumUsers == 2
NumTexts == 2
MaxLivePeriod == 1

Users == 1..NumUsers
\* message.text of an update that passes filters.TEXT: a non-empty string,
\* here the one-character strings over NumTexts characters
Texts == {<<c>> : c \in 1..NumTexts}
\* <<latitude, longitude>> of the locations users report; the handlers only
\* copy them into the payload
Locations == {<<0, 1>>}

\* ------------------------------------------------- values of the program
\* context.user_data.get('state') when the key was never written
None == "None"
INIT == "INIT"
LOCATION_SHARED == "LOCATION_SHARED"
QUEST_SHARED == "QUEST_SHARED"
States == {None, INIT, LOCATION_SHARED, QUEST_SHARED}
\* 'quest' not in context.user_data
NoQuest == <<>>
\* location.live_period of a location that is not live (Python None)
NoLivePeriod == 0
LivePeriods == {NoLivePeriod} \cup (1..MaxLivePeriod)

\* reply texts
START_REPLY == "Click icon, then Location and Share Your Live Location to start."
ASK_QUEST == "What activity do you want to share?"
ASK_LIVE == "Please share your live location."
QUEST_CONFIRMED == "Your quest has been shared with the world."
ENTER_NEW_QUEST == "Please enter the new quest:"
NO_QUEST_TO_EDIT == "No quest to edit."

\* which call to the outside raises while the handler runs
Fails == {"none", "reply", "delete", "connect", "emit"}

\* from_user.first_name of the user
first_name(u) == <<"n", u>>

\* what one handler run leaves behind
Result(s, q, replies, deleted, forwards, error) ==
    [state |-> s, quest |-> q, replies |-> replies, deleted |-> deleted,
     forwards |-> forwards, error |-> error]

\* ---------------------------------------------------------------- start
start(s, q, fail) ==
    IF fail = "reply" THEN Result(s, q, <<>>, FALSE, <<>>, "TransportError")
    ELSE IF fail = "delete"
         THEN Result(INIT, q, <<START_REPLY>>, FALSE, <<>>, "TransportError")
         ELSE Result(INIT, q, <<START_REPLY>>, TRUE, <<>>, "none")

\* ------------------------------------------------------ handle_location
\* the payload of the send_location event
Payload(u, lat, lon, lp, q) ==
    [latitude |-> lat, longitude |-> lon, live_period |-> lp,
     user_id |-> u, quest |-> q, name |-> first_name(u)]

\* variant: forwards as soon as a location is known, quest or not
handle_location_forward_any(s1, q, replies, u, lat, lon, lp, fail) ==
    IF s1 \in {LOCATION_SHARED, QUEST_SHARED}
    THEN Result(s1, q, replies, FALSE, <<Payload(u, lat, lon, lp, q)>>, "none")
    ELSE Result(s1, q, replies, FALSE, <<>>, "AttributeError")

\* lines 41-57, entered with the state s1 left by lines 36-38
handle_location_forward(s1, q, replies, u, lat, lon, lp, fail) ==
    IF s1 = QUEST_SHARED
    THEN IF q = NoQuest
         THEN Result(s1, q, replies, FALSE, <<>>, "KeyError")
         ELSE IF fail \in {"connect", "emit"}
              THEN Result(s1, q, replies, FALSE, <<>>, "ConnectionError")
              ELSE Result(s1, q, replies, FALSE,
                          <<Payload(u, lat, lon, lp, q)>>, "none")
    \* update.message is None when update.edited_message is set
    ELSE Result(s1, q, replies, FALSE, <<>>, "AttributeError")

handle_location(s, q, u, edited, lat, lon, lp, fail) ==
    \* update.edited_message is None for a newly sent location message
    IF ~edited THEN Result(s, q, <<>>, FALSE, <<>>, "AttributeError")
    ELSE IF s # LOCATION_SHARED /\ s # QUEST_SHARED
         THEN IF fail = "reply"
              THEN Result(s, q, <<>>, FALSE, <<>>, "TransportError")
              ELSE handle_location_forward(LOCATION_SHARED, q, <<ASK_QUEST>>,
                                           u, lat, lon, lp, fail)
         ELSE handle_location_forward(s, q, <<>>, u, lat, lon, lp, fail)

\* --------------------------------------------------------- handle_quest
\* variant: keeps a quest that is already stored
handle_quest_keep(s, q, text, fail) ==
    IF text # <<>> /\ s = LOCATION_SHARED
    THEN Result(QUEST_SHARED, IF q = NoQuest THEN text ELSE q,
                <<QUEST_CONFIRMED>>, FALSE, <<>>, "none")
    ELSE Result(s, q, <<>>, FALSE, <<>>, "none")

\* variant: accepts the text in QUEST_SHARED as well
handle_quest_anytime(s, q, text, fail) ==
    IF text # <<>> /\ s \in {LOCATION_SHARED, QUEST_SHARED}
    THEN Result(QUEST_SHARED, text, <<QUEST_CONFIRMED>>, FALSE, <<>>, "none")
    ELSE Result(s, q, <<>>, FALSE, <<>>, "none")

\* variant: moves to QUEST_SHARED without storing the text
handle_quest_nostore(s, q, text, fail) ==
    IF text # <<>> /\ s = LOCATION_SHARED
    THEN Result(QUEST_SHARED, q, <<QUEST_CONFIRMED>>, FALSE, <<>>, "none")
    ELSE Result(s, q, <<>>, FALSE, <<>>, "none")

handle_quest(s, q, text, fail) ==
    IF text # <<>> /\ s = LOCATION_SHARED
    THEN IF fail = "reply"
         THEN Result(s, text, <<>>, FALSE, <<>>, "TransportError")
         ELSE Result(QUEST_SHARED, text, <<QUEST_CONFIRMED>>, FALSE, <<>>, "none")
    ELSE Result(s, q, <<>>, FALSE, <<>>, "none")

\* ----------------------------------------------------------- edit_quest
\* variant: prompts for the new quest but leaves the state alone
edit_quest_norewind(s, q, fail) ==
    IF q # NoQuest
    THEN Result(s, q, <<ENTER_NEW_QUEST>>, TRUE, <<>>, "none")
    ELSE Result(s, q, <<NO_QUEST_TO_EDIT>>, TRUE, <<>>, "none")

edit_quest(s, q, fail) ==
    IF fail = "delete" THEN Result(s, q, <<>>, FALSE, <<>>, "TransportError")
    ELSE IF q # NoQuest
         THEN IF fail = "reply"
              THEN Result(s, q, <<>>, TRUE, <<>>, "TransportError")
              ELSE Result(LOCATION_SHARED, q, <<ENTER_NEW_QUEST>>, TRUE, <<>>, "none")
         ELSE IF fail = "reply"
              THEN Result(s, q, <<>>, TRUE, <<>>, "TransportError")
              ELSE Result(s, q, <<NO_QUEST_TO_EDIT>>, TRUE, <<>>, "none")

\* ---------------------------------------------------------------- state
VARIABLES
    state,         \* context.user_data['state'] of each user
    quest,         \* context.user_data['quest'] of each user
    last,          \* the update handled last and what its handler did
    questSet,      \* history: a text message has stored a quest for the user
    awaitText,     \* history: /edit rewound the user and no text came since
    solo,          \* history: each user's session had its own updates been
                   \* handled alone
    polling,       \* dp.run_polling() is running
    error_handlers, \* the error handlers registered on the Application
    inflight       \* the handler runs that have started and not yet returned

vars == <<state, quest, last, questSet, awaitText, solo, polling, error_handlers,
         inflight>>

\* an exception raised by a handler is passed to the registered error
\* handlers, if any
Event(kind, u, edited, lat, lon, lp, text, fail, res) ==
    [kind |-> kind, user |-> u, edited |-> edited, latitude |-> lat,
     longitude |-> lon, live_period |-> lp, text |-> text, fail |-> fail,
     old_state |-> state[u], old_quest |-> quest[u],
     replies |-> res.replies, deleted |-> res.deleted,
     forwards |-> res.forwards, error |-> res.error,
     recorded |-> (res.error # "none" /\ "handle_error" \in error_handlers)]

NoEvent ==
    [kind |-> "none", user |-> 1, edited |-> FALSE, latitude |-> 0,
     longitude |-> 0, live_period |-> NoLivePeriod, text |-> <<>>,
     fail |-> "none", old_state |-> None, old_quest |-> NoQuest,
     replies |-> <<>>, deleted |-> FALSE, forwards |-> <<>>, error |-> "none",
     recorded |-> FALSE]

Init ==
    /\ state = [u \in Users |-> None]
    /\ quest = [u \in Users |-> NoQuest]
    /\ last = NoEvent
    /\ questSet = [u \in Users |-> FALSE]
    /\ awaitText = [u \in Users |-> FALSE]
    /\ solo = [u \in Users |-> [state |-> None, quest |-> NoQuest]]
    /\ polling = TRUE
    /\ error_handlers = {}
    /\ inflight = {}

\* variant: one session shared by all users instead of user_data
Store_shared(u, res) ==
    /\ state' = [v \in Users |-> res.state]
    /\ quest' = [v \in Users |-> res.quest]

\* the handler's writes to context.user_data
Store(u, res) ==
    /\ state' = [state EXCEPT ![u] = res.state]
    /\ quest' = [quest EXCEPT ![u] = res.quest]

\* the same handler run on the session the user would have alone
Alone(u, res) ==
    solo' = [solo EXCEPT ![u] = [state |-> res.state, quest |-> res.quest]]

\* CommandHandler("start", start)
DispatchStart(u, fail) ==
    LET res == start(state[u], quest[u], fail) IN
    /\ polling
    /\ Store(u, res)
    /\ UNCHANGED <<polling, error_handlers>>
    /\ Alone(u, start(solo[u].state, solo[u].quest, fail))
    /\ last' = Event("start", u, FALSE, 0, 0, NoLivePeriod, <<>>, fail, res)
    /\ UNCHANGED <<questSet, awaitText>>

\* CommandHandler("edit", edit_quest)
DispatchEdit(u, fail) ==
    LET res == edit_quest(state[u], quest[u], fail) IN
    /\ polling
    /\ Store(u, res)
    /\ UNCHANGED <<polling, error_handlers>>
    /\ Alone(u, edit_quest(solo[u].state, solo[u].quest, fail))
    /\ last' = Event("edit", u, FALSE, 0, 0, NoLivePeriod, <<>>, fail, res)
    /\ awaitText' = [awaitText EXCEPT ![u] =
                        IF quest[u] # NoQuest /\ res.error = "none" THEN TRUE ELSE @]
    /\ UNCHANGED questSet

\* MessageHandler(filters.LOCATION, handle_location)
DispatchLocation(u, edited, lat, lon, lp, fail) ==
    LET res == handle_location(state[u], quest[u], u, edited, lat, lon, lp, fail) IN
    /\ polling
    /\ Store(u, res)
    /\ UNCHANGED <<polling, error_handlers>>
    /\ Alone(u, handle_location(solo[u].state, solo[u].quest, u, edited, lat, lon, lp, fail))
    /\ last' = Event("location", u, edited, lat, lon, lp, <<>>, fail, res)
    /\ UNCHANGED <<questSet, awaitText>>

\* MessageHandler(filters.TEXT, handle_quest)
DispatchText(u, text, fail) ==
    LET res == handle_quest(state[u], quest[u], text, fail) IN
    /\ polling
    /\ Store(u, res)
    /\ UNCHANGED <<polling, error_handlers>>
    /\ Alone(u, handle_quest(solo[u].state, solo[u].quest, text, fail))
    /\ last' = Event("text", u, FALSE, 0, 0, NoLivePeriod, text, fail, res)
    /\ questSet' = [questSet EXCEPT ![u] = @ \/ res.quest = text]
    /\ awaitText' = [awaitText EXCEPT ![u] = FALSE]

\* every call to the chat transport and to the backend succeeds
Next ==
    \/ \E u \in Users : DispatchStart(u, "none") /\ UNCHANGED inflight
    \/ \E u \in Users : DispatchEdit(u, "none") /\ UNCHANGED inflight
    \/ \E u \in Users, edited \in BOOLEAN, loc \in Locations, lp \in LivePeriods :
          DispatchLocation(u, edited, loc[1], loc[2], lp, "none") /\ UNCHANGED inflight
    \/ \E u \in Users, text \in Texts : DispatchText(u, text, "none") /\ UNCHANGED inflight

Spec == Init /\ [][Next]_vars

\* dp.run_polling(poll_interval=1) returns when the bot is stopped
StopPolling ==
    /\ polling
    /\ polling' = FALSE
    /\ UNCHANGED <<state, quest, last, questSet, awaitText, solo, error_handlers,
                   inflight>>

\* dp.add_error_handler(handle_error), the statement after run_polling
AddErrorHandler ==
    /\ ~polling
    /\ error_handlers = {}
    /\ error_handlers' = {"handle_error"}
    /\ UNCHANGED <<state, quest, last, questSet, awaitText, solo, polling, inflight>>

\* the calls a handler makes to the chat transport and to the backend
StartFails == {"none", "reply", "delete"}
EditFails == {"none", "delete", "reply"}
LocationFails == {"none", "reply", "connect", "emit"}
TextFails == {"none", "reply"}

\* any call to the chat transport or to the backend may raise
NextFail ==
    \/ \E u \in Users, fail \in StartFails :
          DispatchStart(u, fail) /\ UNCHANGED inflight
    \/ \E u \in Users, fail \in EditFails :
          DispatchEdit(u, fail) /\ UNCHANGED inflight
    \/ \E u \in Users, edited \in BOOLEAN, loc \in Locations, lp \in LivePeriods,
          fail \in LocationFails :
          DispatchLocation(u, edited, loc[1], loc[2], lp, fail) /\ UNCHANGED inflight
    \/ \E u \in Users, text \in Texts, fail \in TextFails :
          DispatchText(u, text, fail) /\ UNCHANGED inflight
    \/ StopPolling
    \/ AddErrorHandler

SpecFail == Init /\ [][NextFail]_vars

\* ------------------------------------------- handler runs as two steps
\* The Application is built without concurrent_updates and the handlers are
\* registered blocking, so an update is taken up only when no handler run
\* is in flight.
\* variant: Application.builder().concurrent_updates(True)
Idle_concurrent == TRUE

Idle == inflight = {}

Kinds == {"start", "edit", "location", "text"}

\* the first call to the outside a handler run blocks on
FirstCall(kind, edited, s) ==
    CASE kind = "start" -> "reply"
      [] kind = "edit" -> "delete"
      [] kind = "text" -> IF s = LOCATION_SHARED THEN "reply" ELSE "none"
      [] kind = "location" ->
            IF ~edited THEN "none"
            ELSE IF s # LOCATION_SHARED /\ s # QUEST_SHARED THEN "reply"
            ELSE IF s = QUEST_SHARED THEN "connect"
            ELSE "none"

\* a handler is called with the update and reads the user's session; the
\* update being handled has no outcome yet
Begin(u, kind, edited) ==
    /\ polling
    /\ Idle
    /\ inflight' = inflight \cup
           {[user |-> u, kind |-> kind, edited |-> edited,
             seen_state |-> state[u], seen_quest |-> quest[u],
             waits_on |-> FirstCall(kind, edited, state[u])]}
    /\ last' = [NoEvent EXCEPT !.kind = "running", !.user = u]
    /\ UNCHANGED <<state, quest, questSet, awaitText, solo, polling,
                   error_handlers>>

\* the handler's calls return and it runs to its end
Finish(h) ==
    /\ h \in inflight
    /\ inflight' = inflight \ {h}
    /\ \/ h.kind = "start" /\ DispatchStart(h.user, "none")
       \/ h.kind = "edit" /\ DispatchEdit(h.user, "none")
       \/ /\ h.kind = "location"
          /\ \E loc \in Locations, lp \in LivePeriods :
                DispatchLocation(h.user, h.edited, loc[1], loc[2], lp, "none")
       \/ /\ h.kind = "text"
          /\ \E text \in Texts : DispatchText(h.user, text, "none")

NextSteps ==
    \/ \E u \in Users, kind \in Kinds, edited \in BOOLEAN :
          (kind = "location" \/ ~edited) /\ Begin(u, kind, edited)
    \/ \E h \in inflight : Finish(h)

SpecSteps == Init /\ [][NextSteps]_vars

\* the state the spec calls INIT: no 'state' key yet, or 'INIT' written by start
SessionState(u) == IF state[u] = None THEN INIT ELSE state[u]
OldSessionState == IF last.old_state = None THEN INIT ELSE last.old_state

TypeOK ==
    /\ state \in [Users -> States]
    /\ quest \in [Users -> Texts \cup {NoQuest}]
    /\ questSet \in [Users -> BOOLEAN]
    /\ awaitText \in [Users -> BOOLEAN]
    /\ last.kind \in {"none", "running", "start", "edit", "location", "text"}
    /\ last.fail \in Fails
    /\ polling \in BOOLEAN
    /\ error_handlers \subseteq {"handle_error"}
    /\ Cardinality(inflight) <= 1
    /\ Len(last.forwards) <= 1

\* ------------------------------------------------------------ properties
Forwarded == last.forwards # <<>>
\* the update handled last was a location share with a live period
LiveShare == last.kind = "location" /\ last.live_period # NoLivePeriod

\* C1: every identity starts in INIT (before any update is handled), and no
\* send_location forward is dispatched for an identity before a text message
\* has set its quest.
C1_NoForwardBeforeQuest ==
    /\ last.kind = "none" => \A u \in Users : SessionState(u) = INIT
    /\ Forwarded => /\ last.kind = "location"
                    /\ questSet[last.user]
                    /\ last.forwards[1].quest # NoQuest

\* a live location update was handled for a user without a quest: no forward
C1_Witness ==
    /\ LiveShare /\ last.edited
    /\ ~questSet[last.user]
    /\ ~Forwarded

\* C2: a live location share received in QUEST_SHARED dispatches exactly one
\* forward carrying the stored quest, the sender's identity and the live
\* period of the update, and the state remains QUEST_SHARED.
C2_QuestSharedLiveShareForwardsOnce ==
    (LiveShare /\ last.old_state = QUEST_SHARED) =>
        /\ Len(last.forwards) = 1
        /\ last.forwards[1].quest = last.old_quest
        /\ last.forwards[1].user_id = last.user
        /\ last.forwards[1].live_period = last.live_period
        /\ state[last.user] = QUEST_SHARED

\* C3: a location share without a live period never changes the state.
C3_NonLiveShareKeepsState ==
    (last.kind = "location" /\ last.live_period = NoLivePeriod) =>
        SessionState(last.user) = OldSessionState

\* C4: an edit command issued while a quest exists sets the state to
\* LOCATION_SHARED, and from then on no location share of that identity is
\* forwarded until a text message has been received.
C4_EditRewindsUntilText ==
    /\ (last.kind = "edit" /\ last.old_quest # NoQuest) =>
           state[last.user] = LOCATION_SHARED
    /\ \A u \in Users :
           awaitText[u] => /\ state[u] # QUEST_SHARED
                           /\ ~(last.kind = "location" /\ last.user = u /\ Forwarded)

\* after an edit, a live location update arrived and was not forwarded
C4_Witness ==
    /\ LiveShare /\ last.edited
    /\ awaitText[last.user]
    /\ last.old_quest # NoQuest
    /\ ~Forwarded

\* C5: an edit command issued while no quest exists leaves the state
\* unchanged, dispatches no forward and issues the 'nothing to edit' reply,
\* in particular when it follows a start command that has reset the session
\* (the state is the INIT written by start).
C5_EditWithoutQuest ==
    (last.kind = "edit" /\ (last.old_quest = NoQuest \/ last.old_state = INIT)) =>
        /\ state[last.user] = last.old_state
        /\ ~Forwarded
        /\ last.replies = <<NO_QUEST_TO_EDIT>>

\* C6: a start command resets the session to INIT with the quest cleared, so
\* that a reset session leaves INIT only by a live location share (and
\* forwarding resumes only after that share and a new text message).
C6_StartResetsSession ==
    /\ [](last.kind = "start" =>
             /\ state[last.user] = INIT
             /\ quest[last.user] = NoQuest)
    /\ [][\A u \in Users :
             (state[u] = INIT /\ state'[u] # INIT) =>
                 /\ last'.kind = "location" /\ last'.user = u
                 /\ last'.live_period # NoLivePeriod
                 /\ state'[u] = LOCATION_SHARED]_vars

\* C7: the stored quest is non-empty only if the state is QUEST_SHARED.
C7_QuestOnlyInQuestShared ==
    \A u \in Users : quest[u] # NoQuest => state[u] = QUEST_SHARED

\* C8: the only state changes are INIT to LOCATION_SHARED by a live location
\* share, LOCATION_SHARED to QUEST_SHARED by a text message, QUEST_SHARED to
\* LOCATION_SHARED by an edit command, and the reset to INIT by start.
C8_MonotonicTransitions ==
    (last.kind # "none" /\ SessionState(last.user) # OldSessionState) =>
        \/ /\ OldSessionState = INIT
           /\ state[last.user] = LOCATION_SHARED
           /\ LiveShare
        \/ /\ OldSessionState = LOCATION_SHARED
           /\ state[last.user] = QUEST_SHARED
           /\ last.kind = "text"
        \/ /\ OldSessionState = QUEST_SHARED
           /\ state[last.user] = LOCATION_SHARED
           /\ last.kind = "edit"
        \/ /\ last.kind = "start"
           /\ state[last.user] = INIT

\* C9: a text message received in LOCATION_SHARED stores exactly that text
\* as the quest and sets the state to QUEST_SHARED, without any forward.
C9_TextInLocationSharedSetsQuest ==
    (last.kind = "text" /\ last.old_state = LOCATION_SHARED) =>
        /\ quest[last.user] = last.text
        /\ state[last.user] = QUEST_SHARED
        /\ ~Forwarded

\* a text replaced a different quest that was stored before an edit
C9_Witness ==
    /\ last.kind = "text" /\ last.old_state = LOCATION_SHARED
    /\ last.old_quest # NoQuest
    /\ last.old_quest # last.text
    /\ quest[last.user] = last.text

\* C10: a text message received in any state other than LOCATION_SHARED
\* changes neither state nor quest and produces no reply and no forward.
C10_TextElsewhereIsNoop ==
    (last.kind = "text" /\ last.old_state # LOCATION_SHARED) =>
        /\ state[last.user] = last.old_state
        /\ quest[last.user] = last.old_quest
        /\ last.replies = <<>>
        /\ ~Forwarded
        /\ last.error = "none"

\* a text different from the stored quest arrived in QUEST_SHARED
C10_Witness ==
    /\ last.kind = "text" /\ last.old_state = QUEST_SHARED
    /\ last.text # last.old_quest
    /\ quest[last.user] = last.old_quest

\* C11: a live location share received in INIT sets the state to
\* LOCATION_SHARED, replies with the prompt asking for the quest, and
\* dispatches no forward.
C11_InitLiveShareAsksQuest ==
    (LiveShare /\ OldSessionState = INIT) =>
        /\ state[last.user] = LOCATION_SHARED
        /\ last.replies = <<ASK_QUEST>>
        /\ ~Forwarded

\* C12: a live location share received in LOCATION_SHARED while no quest has
\* been supplied leaves the state at LOCATION_SHARED and dispatches no
\* forward.
C12_LocationSharedLiveShareStays ==
    (LiveShare /\ last.old_state = LOCATION_SHARED /\ last.old_quest = NoQuest) =>
        /\ state[last.user] = LOCATION_SHARED
        /\ quest[last.user] = NoQuest
        /\ ~Forwarded

\* a second live location update arrived before any quest text
C12_Witness ==
    /\ LiveShare /\ last.edited
    /\ last.old_state = LOCATION_SHARED
    /\ last.old_quest = NoQuest
    /\ state[last.user] = LOCATION_SHARED

\* C18: the reply asking for a live location is issued for a location share
\* if and only if the share has no live period.
C18_AskLiveIffNonLive ==
    last.kind = "location" =>
        ((\E i \in 1..Len(last.replies) : last.replies[i] = ASK_LIVE)
            <=> last.live_period = NoLivePeriod)

\* C19: an identity whose state is QUEST_SHARED has a stored quest, so the
\* read of the quest for the forward payload never fails on a missing key.
C19_QuestSharedHasQuest ==
    /\ \A u \in Users : state[u] = QUEST_SHARED => quest[u] # NoQuest
    /\ last.error # "KeyError"

\* a location update read the stored quest for its payload after a rewind
C19_Witness ==
    /\ last.kind = "location" /\ last.old_state = QUEST_SHARED
    /\ Forwarded
    /\ last.forwards[1].quest = quest[last.user]
    /\ awaitText[last.user] = FALSE

\* C13: sessions of different identities are independent: an update of one
\* identity changes neither state nor quest of another, so every identity's
\* session equals the one it would have had its own updates been handled
\* alone.
C13_SessionsIndependent ==
    \A u \in Users : /\ state[u] = solo[u].state
                     /\ quest[u] = solo[u].quest

\* an update moved one user's session while another user holds a quest
C13_Witness ==
    /\ last.kind = "location"
    /\ last.old_state # LOCATION_SHARED
    /\ state[last.user] = LOCATION_SHARED
    /\ quest[last.user] = NoQuest
    /\ \E v \in Users : /\ v # last.user
                        /\ state[v] = QUEST_SHARED
                        /\ quest[v] # NoQuest

\* C14: when the forward fails during a location share handled in
\* QUEST_SHARED, state and quest are unchanged and the failure does not
\* raise out of the location handler.
C14_ForwardFailureContained ==
    (/\ last.kind = "location" /\ last.edited
     /\ last.old_state = QUEST_SHARED
     /\ last.fail \in {"connect", "emit"}) =>
        /\ state[last.user] = last.old_state
        /\ quest[last.user] = last.old_quest
        /\ last.error = "none"

\* C15: no error is fatal: an exception raised while an update is handled
\* is caught and recorded by the error handler handle_error, and updates
\* keep being handled afterwards.
C15_ErrorsRecorded ==
    last.error # "none" => (last.recorded /\ polling)

\* C20: a text message handled in LOCATION_SHARED updates the session
\* atomically with respect to a failure of the confirmation reply (quest and
\* state both changed, or neither), and a start or location handler whose
\* reply fails leaves the state unchanged.
C20_AtomicOnReplyFailure ==
    /\ (last.kind = "text" /\ last.old_state = LOCATION_SHARED) =>
           \/ /\ quest[last.user] = last.text
              /\ state[last.user] = QUEST_SHARED
           \/ /\ quest[last.user] = last.old_quest
              /\ state[last.user] = last.old_state
    /\ (last.kind \in {"start", "location"} /\ last.error = "TransportError"
        /\ last.fail = "reply") =>
           state[last.user] = last.old_state

\* C16: one update is fully handled before the next update of the same
\* identity starts being handled: no two handler runs of one identity are
\* in flight together, and nothing writes the identity's session between a
\* handler's read of it and the handler's end.
C16_OneHandlerPerIdentity ==
    \A h \in inflight :
        /\ \A g \in inflight : g.user = h.user => g = h
        /\ state[h.user] = h.seen_state
        /\ quest[h.user] = h.seen_quest

\* a text handler runs for a user whose earlier updates (location, text,
\* edit) were each handled to the end
C16_Witness ==
    \E h \in inflight :
        /\ h.kind = "text" /\ h.seen_state = LOCATION_SHARED
        /\ h.seen_quest # NoQuest
        /\ awaitText[h.user]
        /\ last.kind = "running" /\ last.user = h.user

\* C17: while a forward of one identity is waiting on the connection to the
\* backend, updates of other identities can be handled.
C17_ConnectDoesNotStall ==
    \A h \in inflight :
        h.waits_on = "connect" =>
            \E v \in Users \ {h.user} : ENABLED Begin(v, "text", FALSE)
====
